---- MODULE Spec2Model ----
(***************************************************************************)
(* Model of src/app.py: the Streamlit page of the QA chatbot.  One browser  *)
(* session is modelled: the session state (transcript, agent), the page     *)
(* runs, and the per-turn streaming loop stream_response with its chunk     *)
(* decoder (extract_tool_info, extract_text).                               *)
(***************************************************************************)
EXTENDS Integers, Sequences, FiniteSets, TLC

VARIABLES
    messages,      \* st.session_state.messages: <<[role, content]>>
    agent,         \* st.session_state.agent: 0 = key absent, n = n-th instance built
    init_calls,    \* number of calls of initialize_agent() in this session
    pc,            \* "new" | "idle" | "stopped" | "streaming"
    prompt,        \* the prompt of the current turn
    agent_used,    \* script-level `agent` (line 151), the instance stream_async runs on
    buffer,        \* stream_response: buffer
    shown_tools,   \* stream_response: shown_tools
    container,     \* elements rendered into `container` during the turn
    text_holder,   \* index (in container) of the current text placeholder
    user_shown,    \* the turn's user message was rendered (line 161)
    error,         \* frame that raised, as shown by st.error / st.code; "" = none
    loops,         \* one entry per event loop created: "open" | "closed"
    nchunks,       \* chunks the agent has streamed in this session
    turns,         \* number of turns started
    outcome,       \* result of the current page run: "none" | "ok" | "failed" | "init_failed"
    pre_turn,      \* transcript when the current turn's input arrived
    turn_text,     \* in-order concatenation of the text of every chunk of the turn
    dup_starts     \* ids whose start marker arrived again after being announced this turn

vars == <<messages, agent, init_calls, pc, prompt, agent_used, buffer, shown_tools,
          container, text_holder, user_shown, error, loops, nchunks, turns, outcome,
          pre_turn, turn_text, dup_starts>>

(***************************************************************************)
(* Bounds.                                                                 *)
(***************************************************************************)
MaxTurns == 2
MaxChunks == 3
MaxInitCalls == 2

Prompts == {"q1"}

Cursor == "▌"

(***************************************************************************)
(* Python values.  Every value is a tagged record; a dict carries its      *)
(* key/value mapping in kv.  An exception in flight is the value Raise.    *)
(***************************************************************************)
None == [tag |-> "none"]
Str(s) == [tag |-> "str", s |-> s]
PyInt(n) == [tag |-> "int", n |-> n]
Dict(kv) == [tag |-> "dict", kv |-> kv]
EmptyDict == Dict(<<>>)
Raise(exc, frame) == [tag |-> "raise", exc |-> exc, frame |-> frame]
Bool(b) == [tag |-> "bool", b |-> b]

\* bool(v)
Truthy(v) ==
    CASE v.tag = "none" -> FALSE
      [] v.tag = "str"  -> v.s # ""
      [] v.tag = "int"  -> v.n # 0
      [] v.tag = "dict" -> DOMAIN v.kv # {}
      [] OTHER          -> TRUE

\* v.get(k, default); an exception already in flight propagates
Get(v, k, default, frame) ==
    CASE v.tag = "raise" -> v
      [] v.tag = "dict"  -> IF k \in DOMAIN v.kv THEN v.kv[k] ELSE default
      [] OTHER           -> Raise("AttributeError", frame)

\* k in v  (k a str).  The strings of the model never properly contain k,
\* so the substring test on a str is equality.
Contains(k, v, frame) ==
    CASE v.tag = "raise" -> v
      [] v.tag = "dict"  -> Bool(k \in DOMAIN v.kv)
      [] v.tag = "str"   -> Bool(v.s = k)
      [] OTHER           -> Raise("TypeError", frame)

\* v[k]  (k a str)
GetItem(v, k, frame) ==
    CASE v.tag = "raise" -> v
      [] v.tag = "dict"  -> IF k \in DOMAIN v.kv THEN v.kv[k]
                            ELSE Raise("KeyError", frame)
      [] OTHER           -> Raise("TypeError", frame)

(***************************************************************************)
(* The chunk decoder.                                                      *)
(***************************************************************************)
\* extract_tool_info(chunk): [tag |-> "tuple", id, name] or an exception
extract_tool_info(chunk) ==
    LET f == "extract_tool_info"
        event == Get(chunk, "event", EmptyDict, f)
        has == Contains("contentBlockStart", event, f)
    IN  IF has.tag = "raise" THEN has
        ELSE IF has.b
        THEN LET cbs == GetItem(event, "contentBlockStart", f)
                 start == Get(cbs, "start", EmptyDict, f)
                 tool_use == Get(start, "toolUse", EmptyDict, f)
                 id == Get(tool_use, "toolUseId", None, f)
                 name == Get(tool_use, "name", None, f)
             IN  IF id.tag = "raise" THEN id
                 ELSE [tag |-> "tuple", id |-> id, name |-> name]
        ELSE [tag |-> "tuple", id |-> None, name |-> None]

\* extract_text(chunk): the text value, Str("") or an exception
extract_text(chunk) ==
    LET f == "extract_text"
        text == Get(chunk, "data", None, f)
    IN  IF text.tag = "raise" THEN text
        ELSE IF Truthy(text) THEN text
        ELSE LET delta == Get(Get(chunk, "delta", EmptyDict, f), "text", None, f)
             IN  IF delta.tag = "raise" THEN delta
                 ELSE IF Truthy(delta) THEN delta
                 ELSE Str("")

(***************************************************************************)
(* Chunks the agent stream may yield.                                      *)
(***************************************************************************)
ToolStart(id, name) ==
    [event |-> Dict([contentBlockStart |->
        Dict([start |-> Dict([toolUse |-> Dict([toolUseId |-> id, name |-> name])])])])]

Chunks == <<
    Str("x"),                                                  \* not a dict
    EmptyDict,
    Dict([data |-> Str("a")]),
    Dict([delta |-> Dict([text |-> Str("b")])]),
    Dict([data |-> Str(""), delta |-> Dict([text |-> Str("a")])]),
    Dict([data |-> Str("a"), delta |-> Dict([text |-> Str("b")])]),
    Dict(ToolStart(Str("t1"), Str("retrieve"))),
    Dict(ToolStart(Str("t1"), Str("tavily_search"))),
    Dict(ToolStart(Str("t2"), Str("retrieve"))),
    Dict([event |-> Dict([contentBlockStart |->
        Dict([start |-> Dict([toolUse |-> Dict([toolUseId |-> Str("t1")])])])])]),
    Dict(ToolStart(Str("t1"), Str("retrieve")) @@ [data |-> Str("b")]),
    Dict([event |-> Str("x")]),
    Dict([event |-> None]),
    Dict([event |-> Dict([contentBlockStart |-> Str("x")])]),
    Dict([event |-> Dict([contentBlockStart |-> Dict([start |-> None])])]),
    Dict([event |-> Dict([contentBlockStart |->
        Dict([start |-> Dict([toolUse |-> Str("x")])])])]),
    Dict([delta |-> Str("x")]),
    Dict([data |-> PyInt(5)]),
    Dict(ToolStart(Dict([k |-> Str("v")]), Str("retrieve")))       \* unhashable id
>>

(***************************************************************************)
(* Rendering into `container`.  An element is a text placeholder           *)
(* (container.empty(), later filled by markdown) or a tool announcement    *)
(* (container.info); id records the invocation an announcement is for.     *)
(***************************************************************************)
Placeholder == [kind |-> "text", body |-> "", id |-> ""]
Info(name, id) == [kind |-> "info", body |-> name, id |-> id]
Markdown(c, holder, body) == [c EXCEPT ![holder].body = body]

\* hash(v) succeeds
Hashable(v) == v.tag # "dict"

\* the body of `async for chunk in agent.stream_async(prompt)` on the locals
\* l = [buffer, shown_tools, container, text_holder, raised]; raised = "" or
\* the frame whose exception leaves the loop
\* mutant: the `tool_id not in shown_tools` test is dropped
AnnounceTool_NoDedup(l, chunk) ==
    LET info == extract_tool_info(chunk)
    IN  IF info.tag = "raise" THEN [l EXCEPT !.raised = info.frame]
        ELSE IF ~(Truthy(info.id) /\ Truthy(info.name)) THEN l
        ELSE IF ~Hashable(info.id) THEN [l EXCEPT !.raised = "stream_response"]
        ELSE LET flushed == IF l.buffer # ""
                            THEN Markdown(l.container, l.text_holder, l.buffer)
                            ELSE l.container
                 shown == Append(Append(flushed, Info(info.name.s, info.id.s)),
                                 Placeholder)
             IN  [l EXCEPT !.shown_tools = @ \cup {info.id.s},
                           !.buffer = "",
                           !.container = shown,
                           !.text_holder = Len(shown)]

AnnounceTool(l, chunk) ==
    LET info == extract_tool_info(chunk)
    IN  IF info.tag = "raise" THEN [l EXCEPT !.raised = info.frame]
        ELSE IF ~(Truthy(info.id) /\ Truthy(info.name)) THEN l
        ELSE IF ~Hashable(info.id) THEN [l EXCEPT !.raised = "stream_response"]
        ELSE IF info.id.s \in l.shown_tools THEN l
        ELSE LET flushed == IF l.buffer # ""
                            THEN Markdown(l.container, l.text_holder, l.buffer)
                            ELSE l.container
                 shown == Append(Append(flushed, Info(info.name.s, info.id.s)),
                                 Placeholder)
             IN  [l EXCEPT !.shown_tools = @ \cup {info.id.s},
                           !.buffer = "",
                           !.container = shown,
                           !.text_holder = Len(shown)]

ShowText(l, chunk) ==
    LET text == extract_text(chunk)
    IN  IF text.tag = "raise" THEN [l EXCEPT !.raised = text.frame]
        ELSE IF ~Truthy(text) THEN l
        ELSE IF text.tag # "str" THEN [l EXCEPT !.raised = "stream_response"]
        ELSE [l EXCEPT !.buffer = @ \o text.s,
                       !.container = Markdown(@, l.text_holder,
                                              (l.buffer \o text.s) \o Cursor)]

LoopBody(l, chunk) ==
    IF chunk.tag # "dict" THEN l
    ELSE LET a == AnnounceTool(l, chunk)
         IN  IF a.raised # "" THEN a ELSE ShowText(a, chunk)

\* the text a chunk carries: what extract_text yields for it
ChunkText(chunk) ==
    IF chunk.tag # "dict" THEN ""
    ELSE LET t == extract_text(chunk)
         IN  IF t.tag = "str" THEN t.s ELSE ""

\* the id of a well-formed start marker for an invocation already announced
RepeatedStart(chunk) ==
    IF chunk.tag # "dict" THEN {}
    ELSE LET info == extract_tool_info(chunk)
         IN  IF /\ info.tag = "tuple"
                /\ info.id.tag = "str" /\ info.name.tag = "str"
                /\ Truthy(info.id) /\ Truthy(info.name)
                /\ info.id.s \in shown_tools
             THEN {info.id.s} ELSE {}

Locals ==
    [buffer |-> buffer, shown_tools |-> shown_tools, container |-> container,
     text_holder |-> text_holder, raised |-> ""]

(***************************************************************************)
(* The page.                                                               *)
(***************************************************************************)
Init ==
    /\ messages = <<>>
    /\ agent = 0
    /\ init_calls = 0
    /\ pc = "new"
    /\ prompt = ""
    /\ agent_used = 0
    /\ buffer = ""
    /\ shown_tools = {}
    /\ container = <<>>
    /\ text_holder = 0
    /\ user_shown = FALSE
    /\ error = ""
    /\ loops = <<>>
    /\ nchunks = 0
    /\ turns = 0
    /\ outcome = "none"
    /\ pre_turn = <<>>
    /\ turn_text = ""
    /\ dup_starts = {}

\* lines 144-149: the outcomes of the agent initialization block, as
\* [agent, calls, stopped]
\* mutant: the `'agent' not in st.session_state` test is dropped
AgentInitBlock_Always ==
    {[agent |-> init_calls + 1, calls |-> init_calls + 1, stopped |-> FALSE],
     [agent |-> 0, calls |-> init_calls + 1, stopped |-> TRUE]}

AgentInitBlock ==
    IF agent = 0
    THEN {[agent |-> init_calls + 1, calls |-> init_calls + 1, stopped |-> FALSE],
          [agent |-> 0, calls |-> init_calls + 1, stopped |-> TRUE]}
    ELSE {[agent |-> agent, calls |-> init_calls, stopped |-> FALSE]}

\* lines 125-151 of a page run: a fresh rendering, then the initialization block
PageTop(r) ==
    /\ agent' = r.agent
    /\ init_calls' = r.calls
    /\ agent_used' = IF r.stopped THEN agent_used ELSE r.agent
    /\ buffer' = ""
    /\ shown_tools' = {}
    /\ turn_text' = ""
    /\ dup_starts' = {}
    /\ UNCHANGED nchunks

\* mutant: st.stop() is missing, the run goes on to the input widget
Stopped_NoStop ==
    /\ pc' = "idle"
    /\ outcome' = "init_failed"
    /\ error' = "initialize_agent"
    /\ container' = <<>>
    /\ text_holder' = 0
    /\ user_shown' = FALSE
    /\ UNCHANGED <<messages, prompt, loops, turns, pre_turn>>

\* st.stop() in line 149: the run ends with the error shown and no input widget
Stopped ==
    /\ pc' = "stopped"
    /\ outcome' = "init_failed"
    /\ error' = "initialize_agent"
    /\ container' = <<>>
    /\ text_holder' = 0
    /\ user_shown' = FALSE
    /\ UNCHANGED <<messages, prompt, loops, turns, pre_turn>>

\* a page run without input: the first load, or a rerun of the page
RunPage ==
    /\ pc \in {"new", "idle", "stopped"}
    /\ agent = 0 => init_calls < MaxInitCalls
    /\ \E r \in AgentInitBlock :
        /\ PageTop(r)
        /\ IF r.stopped THEN Stopped
           ELSE /\ pc' = "idle"
                /\ outcome' = "none"
                /\ error' = ""
                /\ container' = <<>>
                /\ text_holder' = 0
                /\ user_shown' = FALSE
                /\ UNCHANGED <<messages, prompt, loops, turns, pre_turn>>

\* lines 155-217: the page run an input triggers, up to the first await of
\* stream_response
\* mutant: the user message is rendered but not appended to the transcript
StartTurn_NoUserAppend(p) ==
    /\ messages' = messages
    /\ user_shown' = TRUE
    /\ prompt' = p
    /\ pre_turn' = messages
    /\ container' = <<Placeholder>>
    /\ text_holder' = 1
    /\ loops' = Append(loops, "open")
    /\ turns' = turns + 1
    /\ error' = ""
    /\ outcome' = "none"
    /\ pc' = "streaming"

StartTurn(p) ==
    /\ messages' = Append(messages, [role |-> "user", content |-> p])
    /\ user_shown' = TRUE
    /\ prompt' = p
    /\ pre_turn' = messages
    /\ container' = <<Placeholder>>
    /\ text_holder' = 1
    /\ loops' = Append(loops, "open")
    /\ turns' = turns + 1
    /\ error' = ""
    /\ outcome' = "none"
    /\ pc' = "streaming"

SubmitInput ==
    /\ pc = "idle"
    /\ turns < MaxTurns
    /\ \E p \in Prompts, r \in AgentInitBlock :
        /\ PageTop(r)
        /\ IF r.stopped THEN Stopped ELSE StartTurn(p)

\* mutant: the partial response is appended although the turn failed
ExceptClause_AppendsPartial(frame) ==
    /\ error' = frame
    /\ outcome' = "failed"
    /\ pc' = "idle"
    /\ messages' = Append(messages, [role |-> "assistant", content |-> buffer])
    /\ UNCHANGED loops

\* mutant: the failed turn's user message is removed from the transcript
ExceptClause_Discards(frame) ==
    /\ error' = frame
    /\ outcome' = "failed"
    /\ pc' = "idle"
    /\ messages' = pre_turn
    /\ UNCHANGED loops

\* mutant: the except clause halts the page as the initialization block does
ExceptClause_Stops(frame) ==
    /\ error' = frame
    /\ outcome' = "failed"
    /\ pc' = "stopped"
    /\ UNCHANGED <<messages, loops>>

\* lines 223-226: the except clause of the turn
ExceptClause(frame) ==
    /\ error' = frame
    /\ outcome' = "failed"
    /\ pc' = "idle"
    /\ UNCHANGED <<messages, loops>>

\* the agent stream yields a chunk
StreamChunk ==
    /\ pc = "streaming"
    /\ nchunks < MaxChunks
    /\ \E i \in 1..Len(Chunks) :
        LET l == LoopBody(Locals, Chunks[i])
        IN  /\ buffer' = l.buffer
            /\ shown_tools' = l.shown_tools
            /\ container' = l.container
            /\ text_holder' = l.text_holder
            /\ nchunks' = nchunks + 1
            /\ turn_text' = turn_text \o ChunkText(Chunks[i])
            /\ dup_starts' = dup_starts \cup RepeatedStart(Chunks[i])
            /\ IF l.raised # "" THEN ExceptClause(l.raised)
               ELSE UNCHANGED <<messages, loops, error, outcome, pc>>
            /\ UNCHANGED <<agent, init_calls, prompt, agent_used, user_shown, turns,
                           pre_turn>>

\* the agent stream raises
StreamRaise ==
    /\ pc = "streaming"
    /\ ExceptClause("stream_async")
    /\ UNCHANGED <<agent, init_calls, prompt, agent_used, buffer, shown_tools,
                   container, text_holder, user_shown, nchunks, turns, pre_turn,
                   turn_text, dup_starts>>

\* lines 209-221: the agent stream ends
StreamEnd ==
    /\ pc = "streaming"
    /\ container' = IF buffer # "" THEN Markdown(container, text_holder, buffer)
                    ELSE container
    /\ loops' = [loops EXCEPT ![Len(loops)] = "closed"]
    /\ messages' = Append(messages, [role |-> "assistant", content |-> buffer])
    /\ outcome' = "ok"
    /\ pc' = "idle"
    /\ UNCHANGED <<agent, init_calls, prompt, agent_used, buffer, shown_tools,
                   text_holder, user_shown, error, nchunks, turns, pre_turn,
                   turn_text, dup_starts>>

Next ==
    \/ RunPage
    \/ SubmitInput
    \/ StreamChunk
    \/ StreamRaise
    \/ StreamEnd

Spec == Init /\ [][Next]_vars

\* the agent stream is finite: it yields a next chunk, ends or raises
LiveSpec == Spec /\ WF_vars(StreamChunk \/ StreamRaise \/ StreamEnd)

(***************************************************************************)
(* Properties.                                                             *)
(***************************************************************************)
UserMessage(p) == [role |-> "user", content |-> p]
AssistantMessage(t) == [role |-> "assistant", content |-> t]
IsPrefix(s, t) == Len(s) <= Len(t) /\ SubSeq(t, 1, Len(s)) = s
TurnEnded == pc = "idle" /\ outcome \in {"ok", "failed"}
Announcements(id) ==
    {i \in DOMAIN container : container[i].kind = "info" /\ container[i].id = id}
InitFailures == init_calls - (IF agent # 0 THEN 1 ELSE 0)

\* C1: when the stream of a turn completes, the assistant message appended to
\* the transcript is the in-order concatenation of the text of every chunk
\* of the turn, tool-start chunks interleaved or not.
C1_ContentIsAllText ==
    (pc = "idle" /\ outcome = "ok") =>
        messages[Len(messages)] = AssistantMessage(turn_text)

\* C2: when a turn fails, at its end the transcript holds no assistant message
\* for that turn and the error notice is rendered.
C2_FailedTurnNoAssistant ==
    (pc = "idle" /\ outcome = "failed") =>
        /\ IsPrefix(pre_turn, messages)
        /\ \A i \in (Len(pre_turn) + 1)..Len(messages) : messages[i].role # "assistant"
        /\ error # ""

C2_Witness ==
    /\ pc = "idle" /\ outcome = "failed" /\ error = "stream_async"
    /\ buffer # "" /\ shown_tools # {}

\* C3: within one turn every tool-invocation id is announced at most once,
\* however often and wherever its start marker occurs in the stream.
C3_AnnouncedOnce ==
    \A i, j \in DOMAIN container :
        (/\ container[i].kind = "info" /\ container[j].kind = "info"
         /\ container[i].id = container[j].id) => i = j

C3_Witness ==
    \E id \in dup_starts : Cardinality(Announcements(id)) = 1 /\ buffer # ""

\* C4 as claimed: after a turn ends, the transcript holds the turn's user and
\* assistant messages, or is what it was before the turn's input arrived.
C4_AtomicTurn ==
    TurnEnded =>
        \/ messages = pre_turn \o <<UserMessage(prompt), AssistantMessage(buffer)>>
        \/ messages = pre_turn

\* C4 as amended: a completed turn adds its user and assistant message; a
\* failed turn adds its user message alone.
C4_FailedTurnKeepsUserMessage ==
    /\ (pc = "idle" /\ outcome = "ok") =>
           messages = pre_turn \o <<UserMessage(prompt), AssistantMessage(buffer)>>
    /\ (pc = "idle" /\ outcome = "failed") =>
           messages = pre_turn \o <<UserMessage(prompt)>>

C4_Witness ==
    /\ pc = "idle" /\ outcome = "failed" /\ turns = 2
    /\ Len(pre_turn) = 2 /\ Len(messages) = 3

\* C5 as claimed: once agent construction has failed in the session, input is
\* never accepted again, page reruns included.
C5_HaltedForever ==
    InitFailures > 0 => pc \notin {"idle", "streaming"}

\* C5 as amended: the page run in which construction fails accepts no input,
\* and input is accepted only while the session holds an agent.
C5_NoInputWithoutAgent ==
    /\ outcome = "init_failed" => (pc = "stopped" /\ ~ENABLED SubmitInput)
    /\ pc \in {"idle", "streaming"} => agent # 0

C5_Witness ==
    pc = "stopped" /\ init_calls = 2 /\ agent = 0

\* C6: once the session holds an agent, initialize_agent is not called again
\* and the agent is not replaced, and every turn streams from that instance.
C6_OneAgent ==
    [][/\ agent # 0 => (agent' = agent /\ init_calls' = init_calls)
       /\ pc' = "streaming" => (agent' # 0 /\ agent_used' = agent')]_vars

C6_Witness ==
    /\ pc = "idle" /\ outcome = "ok" /\ turns = 2
    /\ loops = <<"open", "closed">> /\ agent_used = agent

\* C7: the chunk decoder never raises, so no turn ends on an exception of
\* extract_tool_info or extract_text.
C7_DecoderNeverRaises ==
    error \notin {"extract_tool_info", "extract_text"}

\* C8: when a turn has ended, completed or failed, its event loop is closed.
C8_LoopClosedAtTurnEnd ==
    pc = "idle" => \A i \in DOMAIN loops : loops[i] = "closed"

\* C9: every step keeps the transcript as a prefix of the new transcript, and
\* while the agent stream runs the turn's user message is already the last
\* entry of the transcript and rendered.
C9_AppendOnly ==
    [][/\ IsPrefix(messages, messages')
       /\ pc' = "streaming" =>
            (user_shown' /\ messages' = Append(pre_turn', UserMessage(prompt')))]_vars

C9_Witness ==
    pc = "streaming" /\ Len(messages) = 3 /\ user_shown /\ nchunks > 0

\* C10: a turn that has started returns the session to idle; until then it
\* stays the same turn (no other input, no cancellation: it ends only as
\* completed or failed), and after a failed turn input is accepted again.
C10_TurnReturnsToIdle ==
    /\ (pc = "streaming") ~> (pc = "idle")
    /\ [][pc = "streaming" =>
            /\ pc' \in {"streaming", "idle"}
            /\ prompt' = prompt /\ turns' = turns
            /\ pc' = "idle" => outcome' \in {"ok", "failed"}]_vars
    /\ []((outcome = "failed" /\ turns < MaxTurns) => ENABLED SubmitInput)

C10_Witness ==
    pc = "streaming" /\ turns = 2 /\ loops[1] = "open"
====
